---- MODULE Spec2Model ----
(***************************************************************************)
(* State-machine model of the MiniShell evaluator (src/Evaluation.c) and   *)
(* of the read loop that drives it (src/Shell.c).                          *)
(*                                                                         *)
(* The shell process is one sequential flow (a stack of activation frames  *)
(* of expression_handler and of the functions it calls) preempted by its   *)
(* signal handlers.  The operating system is the environment: the child    *)
(* processes, the terminal's foreground process group, the descriptor      *)
(* table of the shell process and the signals sent to the shell.           *)
(***************************************************************************)
EXTENDS Integers, Sequences, FiniteSets, TLC

(***************************************************************************)
(* Bounds of the model.                                                    *)
(***************************************************************************)
\* Capacity of the job table (the source's MAXJOBS is 32; the model keeps
\* the name and scales the capacity).
MAXJOBS == 2
\* Number of processes the environment lets the shell create; once they
\* are used up fork () fails (EAGAIN).
MaxPid == 2
\* Highest descriptor number of the shell process (RLIMIT_NOFILE - 1).
MaxFd == 8
\* Number of system calls of the descriptor layers that the environment
\* makes fail for a reason outside the model (EINTR, EIO, ENOENT, ...).
MaxFaults == 1
\* Range of the integers the status canonicalization is applied to.
MaxStatus == 300

(***************************************************************************)
(* Program constants.                                                      *)
(***************************************************************************)
INTERNSTATUS == -128
JFG == 0
JBG == 1
JDONE == 0
JRUNNING == 1
JSTOPPED == 2
NULL == -1
CMDBUFSZ == 16
SIGINT == 2
SIGKILL == 9
SIGSEGV == 11
SIGTERM == 15
SIGTSTP == 20

Slots == 0 .. (MAXJOBS - 1)
Pids == 1 .. MaxPid
Fds == 0 .. MaxFd
\* The pid of the shell: any pid that is not a child's.
ShellPid == MaxPid + 1

(***************************************************************************)
(* Expressions (the parser's trees).                                       *)
(***************************************************************************)
Vide == [type |-> "VIDE"]
Simple(args) == [type |-> "SIMPLE", arguments |-> args]
Node(t, g, d) == [type |-> t, gauche |-> g, droite |-> d]
Bg(g) == [type |-> "BG", gauche |-> g]
Redir(t, g) == [type |-> t, gauche |-> g, arguments |-> <<"f">>]

SeqTypes == {"SEQUENCE", "SEQUENCE_ET", "SEQUENCE_OU"}
RedirTypes == {"REDIRECTION_I", "REDIRECTION_O", "REDIRECTION_A",
               "REDIRECTION_E", "REDIRECTION_EO"}

\* The names the built-in dispatch recognizes (hash_cmd and the switch).
Builtins == {"echo", "cd", "jobs", "fg", "bg"}

(***************************************************************************)
(* Wait statuses, as the kernel encodes them and as <sys/wait.h> decodes   *)
(* them.                                                                   *)
(***************************************************************************)
WExited(code) == code * 256
WSignaled(sig) == sig
WStopped(sig) == sig * 256 + 127

WIFEXITED(w) == (w % 128) = 0
WEXITSTATUS(w) == (w \div 256) % 256
WIFSTOPPED(w) == (w % 256) = 127
WIFSIGNALED(w) == (w % 128) \notin {0, 127}
WTERMSIG(w) == w % 128

(***************************************************************************)
(* Status canonicalization.                                                *)
(***************************************************************************)
\* A canonicalization that shifts negative values the wrong way.
STATUS_shifted(s) == IF s < 0 THEN s + INTERNSTATUS ELSE s

STATUS(s) == IF s < 0 THEN s - INTERNSTATUS ELSE s

(***************************************************************************)
(* The state.                                                              *)
(***************************************************************************)
VARIABLES
    job_list,     \* job_t job_list[MAXJOBS]
    last_job,     \* job_t* last_job, as a slot index
    fg_job,       \* job_t* fg_job, as a slot index, or NULL
    init_flag,    \* set when init_shell ran to its end
    interactive,  \* interactive mode flag
    laststatus,   \* status of the last top-level evaluation
    handlers,     \* the sigaction installed for the shell's signals
    sigchld,      \* a SIGCHLD is pending for the shell
    procs,        \* the shell's child processes, by pid
    nextpid,      \* the pid the next successful fork returns
    tty_pgrp,     \* the terminal's foreground process group (NULL: no terminal)
    fds,          \* the descriptor table of the shell process
    faults,       \* system calls the environment has made fail so far
    stack,        \* activation frames of the main flow, innermost first
    ret,          \* the value the last returned call gave its caller
    trace,        \* how the children the main flow is launching or waiting for ended
    shown,        \* pids displayed as "Done" during the top-level evaluation
    session_leader, \* the shell is a session leader: setpgid on itself fails
    s_in,         \* an integer status a canonicalization is applied to
    s_out,        \* the results of canonicalizing it once, twice, ...
    cmd_arg,      \* the string last passed to register_job as cmd
    cmd_buf,      \* char cmd[CMDBUFSZ] of the slot it was registered in
    cmd_n         \* how many jobs were registered in that slot so far

vars == <<job_list, last_job, fg_job, init_flag, interactive, laststatus,
          handlers, sigchld, procs, nextpid, tty_pgrp, fds, faults, stack,
          ret, trace, shown, session_leader, s_in, s_out, cmd_arg, cmd_buf, cmd_n>>

(***************************************************************************)
(* The job table.                                                          *)
(***************************************************************************)
\* A slot after memset (job_list, 0, sizeof job_list).
\* (The pgid field is left out: register_job stores it and nothing reads it.)
ZeroJob == [jid |-> 0, pid |-> 0, background |-> 0, state |-> 0,
            status |-> 0, termsig |-> 0, cmd |-> ""]

\* A search that falls back on the first slot when none is free.
FreeSlot_evicting(jl) ==
    IF \E i \in Slots : jl[i].pid = 0
    THEN CHOOSE i \in Slots : jl[i].pid = 0 /\ \A j \in Slots : jl[j].pid = 0 => i <= j
    ELSE 0

\* The slot register_job takes: the first one with pid == 0, or NULL.
FreeSlot(jl) ==
    IF \E i \in Slots : jl[i].pid = 0
    THEN CHOOSE i \in Slots : jl[i].pid = 0 /\ \A j \in Slots : jl[j].pid = 0 => i <= j
    ELSE NULL

register_job(jl, pid, pgid, background, cmd) ==
    LET i == FreeSlot(jl) IN
    IF i = NULL THEN jl
    ELSE [jl EXCEPT ![i] = [@ EXCEPT !.jid = i, !.pid = pid,
                                     !.background = background,
                                     !.state = JRUNNING, !.cmd = cmd]]

unregister_job(j) ==
    [j EXCEPT !.pid = 0, !.jid = 0, !.status = 0, !.termsig = 0]

\* A set_status_job that stores the wait status as it comes, undecoded.
set_status_job_raw(j, wstatus) ==
    IF WIFEXITED(wstatus)
    THEN [j EXCEPT !.status = wstatus, !.state = JDONE]
    ELSE IF WIFSTOPPED(wstatus)
    THEN [j EXCEPT !.status = wstatus, !.state = JSTOPPED]
    ELSE IF WIFSIGNALED(wstatus)
    THEN [j EXCEPT !.state = JDONE, !.termsig = WTERMSIG(wstatus)]
    ELSE j

set_status_job(j, wstatus) ==
    IF WIFEXITED(wstatus)
    THEN [j EXCEPT !.status = WEXITSTATUS(wstatus), !.state = JDONE]
    ELSE IF WIFSTOPPED(wstatus)
    THEN [j EXCEPT !.status = 0, !.state = JSTOPPED]
    ELSE IF WIFSIGNALED(wstatus)
    THEN [j EXCEPT !.state = JDONE, !.termsig = WTERMSIG(wstatus)]
    ELSE j

\* display_job, as far as the model observes it: a "Done" line for a pid.
display_job(sh, j) ==
    IF j.state = JDONE /\ j.pid \in Pids THEN sh \cup {j.pid} ELSE sh

(***************************************************************************)
(* The child processes.                                                    *)
(***************************************************************************)
NoProc == [st |-> "none", ws |-> 0, rep |-> FALSE]

Exists(pr, p) == p \in Pids /\ pr[p].st # "none"
\* A state change wait() has not reported yet: a zombie, or a stop.
HasEvent(pr, p) ==
    Exists(pr, p) /\ (pr[p].st = "zombie" \/ (pr[p].st = "stop" /\ ~pr[p].rep))
EventStatus(pr, p) ==
    IF pr[p].st = "zombie" THEN pr[p].ws ELSE WStopped(SIGTSTP)
\* The process table after wait() reported p's event.
Reported(pr, p) ==
    IF pr[p].st = "zombie" THEN [pr EXCEPT ![p] = NoProc]
    ELSE [pr EXCEPT ![p].rep = TRUE]

\* The processes kill(pid, ...) reaches among the shell's children.
KillTargets(pr, pid) ==
    IF pid = -1 THEN {p \in Pids : Exists(pr, p)}
    ELSE {p \in Pids : p = pid /\ Exists(pr, p)}

Continued(pr, pid) ==
    [p \in Pids |-> IF p \in KillTargets(pr, pid) /\ pr[p].st = "stop"
                    THEN [st |-> "run", ws |-> 0, rep |-> FALSE] ELSE pr[p]]
Suspended(pr, pid) ==
    [p \in Pids |-> IF p \in KillTargets(pr, pid) /\ pr[p].st = "run"
                    THEN [st |-> "stop", ws |-> 0, rep |-> FALSE] ELSE pr[p]]
Interrupted(pr, pid) ==
    [p \in Pids |-> IF p \in KillTargets(pr, pid) /\ pr[p].st \in {"run", "stop"}
                    THEN [st |-> "zombie", ws |-> WSignaled(SIGINT), rep |-> FALSE]
                    ELSE pr[p]]

\* SIGCHLD is generated for the shell when a child changes state; with the
\* default disposition installed it is discarded.
Chld(pr1, pr2, h, pend) == pend \/ (h = "act" /\ pr1 # pr2)

(***************************************************************************)
(* The reaper and the sweep.                                               *)
(***************************************************************************)
\* An iteration that leaves in the table a job whose process is gone.
ReapSlot_keeping(jl, pr, i) ==
    IF jl[i].pid > 0 /\ HasEvent(pr, jl[i].pid)
    THEN [jl |-> [jl EXCEPT ![i] = set_status_job(@, EventStatus(pr, jl[i].pid))],
          pr |-> Reported(pr, jl[i].pid)]
    ELSE [jl |-> jl, pr |-> pr]

\* One iteration of grim_reaper's loop, on slot i.
ReapSlot(jl, pr, i) ==
    IF jl[i].pid > 0
    THEN IF HasEvent(pr, jl[i].pid)
         THEN [jl |-> [jl EXCEPT ![i] = set_status_job(@, EventStatus(pr, jl[i].pid))],
               pr |-> Reported(pr, jl[i].pid)]
         ELSE IF ~Exists(pr, jl[i].pid)
         THEN [jl |-> [jl EXCEPT ![i] = unregister_job(@)], pr |-> pr]
         ELSE [jl |-> jl, pr |-> pr]
    ELSE [jl |-> jl, pr |-> pr]

RECURSIVE ReapFrom(_, _, _)
ReapFrom(jl, pr, i) ==
    IF i >= MAXJOBS THEN [jl |-> jl, pr |-> pr]
    ELSE LET r == ReapSlot(jl, pr, i) IN ReapFrom(r.jl, r.pr, i + 1)

grim_reaper(jl, pr) == ReapFrom(jl, pr, 0)

RECURSIVE SweepFrom(_, _, _, _)
SweepFrom(jl, sh, notify, i) ==
    IF i >= MAXJOBS THEN [jl |-> jl, sh |-> sh]
    ELSE IF jl[i].pid # 0 /\ jl[i].state = JDONE
    THEN SweepFrom([jl EXCEPT ![i] = unregister_job(@)],
                   IF notify /\ jl[i].background = JBG
                   THEN display_job(sh, jl[i]) ELSE sh,
                   notify, i + 1)
    ELSE SweepFrom(jl, sh, notify, i + 1)

remove_old_jobs(jl, sh, notify) == SweepFrom(jl, sh, notify, 0)

(***************************************************************************)
(* The main flow: activation frames.                                       *)
(***************************************************************************)
\* A frame: the expression node a call works on, its arguments, the place
\* the call has reached and its locals (job, pid, wstatus), and what the call
\* saved (sv: the descriptors a layer holds; for a sequence the status its
\* left side returned; for evaluer_expr the files behind the standard
\* descriptors on entry), and for a sequence or a pipeline how often each side
\* was evaluated.
Frame(e, options, notify, pc) ==
    [e |-> e, options |-> options, notify |-> notify, pc |-> pc,
     job |-> NULL, pid |-> 0, wstatus |-> 0, sv |-> <<>>, nl |-> 0, nr |-> 0]

IsRedir(e) == e.type \in RedirTypes

\* expression_handler: the frame of the call a node dispatches to.
RECURSIVE expression_handler(_, _, _)
expression_handler(e, options, notify) ==
    IF IsRedir(e) THEN Frame(e, options, notify, "redir")
    ELSE CASE e.type = "VIDE" -> Frame(e, options, notify, "vide")
           [] e.type \in SeqTypes ->
                Frame(e, options, notify,
                      IF options = JBG THEN "seq_fork" ELSE "seq_left")
           [] e.type = "PIPE" -> Frame(e, options, notify, "pipe")
           [] e.type = "BG" -> expression_handler(e.gauche, JBG, notify)
           [] e.type = "SIMPLE" -> Frame(e, options, notify, "cmd")

Prompt == stack = <<>>
AtPc(l) == stack # <<>> /\ Head(stack).pc = l
Top == Head(stack)
\* The stack with its innermost frame replaced, and with a call pushed.
SetTop(f) == <<f>> \o Tail(stack)
Call(f, callee) == <<callee, f>> \o Tail(stack)

Return(v) ==
    /\ stack' = Tail(stack)
    /\ ret' = v

CmdName(f) == IF f.e.type = "SIMPLE" THEN f.e.arguments[1] ELSE "Sequence"
IsJobctrl(f) == f.e.type = "SIMPLE" /\ f.e.arguments[1] \in {"fg", "bg"}

\* tcsetpgrp (0, pgrp) by the shell: the new foreground group, given that
\* descriptor 0 must be the terminal and the group must exist.
tcsetpgrp(tp, fd, pr, pgrp) ==
    IF tp # NULL /\ fd[0].f = "tty" /\ (pgrp = ShellPid \/ Exists(pr, pgrp))
    THEN pgrp ELSE tp

(***************************************************************************)
(* Initial state: the shell process as main() starts its read loop.        *)
(***************************************************************************)
\* A descriptor: the file behind it, the layer that created it, and for a
\* pipe end the pipe it belongs to (id).
Closed == [f |-> "closed", by |-> "none", id |-> 0]
Tty == [f |-> "tty", by |-> "init", id |-> 0]

InitShell ==
    /\ job_list = [i \in Slots |-> ZeroJob]
    /\ last_job = 0
    /\ fg_job = NULL
    /\ init_flag = FALSE
    /\ interactive = TRUE
    /\ laststatus = 0
    /\ handlers = "dfl"
    /\ sigchld = FALSE
    /\ procs = [p \in Pids |-> NoProc]
    /\ nextpid = 1
    /\ tty_pgrp \in {ShellPid, NULL}
    /\ fds = [n \in Fds |-> IF n <= 2 THEN Tty ELSE Closed]
    /\ faults = 0
    /\ stack = <<>>
    /\ ret = 0
    /\ trace = <<>>
    /\ shown = {}
    /\ cmd_arg = <<0>>
    /\ cmd_buf = [j \in 1 .. CMDBUFSZ |-> 0]
    /\ cmd_n = 0

\* The shell started as a member of a process group of its session (by an
\* interactive shell, say).
Init ==
    /\ InitShell
    /\ session_leader = FALSE
    /\ s_in = 0
    /\ s_out = <<>>

\* The shell started by anything: it may be the leader of its session (the
\* program a terminal emulator or a login runs).
InitAny ==
    /\ InitShell
    /\ session_leader \in BOOLEAN
    /\ s_in = 0
    /\ s_out = <<>>

(***************************************************************************)
(* evaluer_expr: entry.                                                    *)
(***************************************************************************)
\* The expressions the read loop hands to evaluer_expr.
A == Simple(<<"a">>)
Echo == Simple(<<"echo", "x">>)
Exprs ==
    { Vide, A, Bg(A), Echo, Simple(<<"jobs">>),
      Simple(<<"fg">>), Simple(<<"bg">>), Simple(<<"fg", "a">>),
      Node("SEQUENCE", A, A), Node("SEQUENCE_OU", A, Echo),
      Node("SEQUENCE_ET", A, Echo), Bg(Node("SEQUENCE", A, A)) }
\* The expressions with pipelines and redirections.
ExprsIO ==
    { Redir("REDIRECTION_I", A), Redir("REDIRECTION_EO", Echo),
      Node("PIPE", A, A), Bg(Node("PIPE", Echo, A)),
      Node("PIPE", Node("PIPE", Echo, Echo), Echo) }
\* The sequences, run in foreground.
Cd == Simple(<<"cd", "d">>)
ExprsSeq ==
    { Node("SEQUENCE", A, Echo), Node("SEQUENCE_ET", A, Echo),
      Node("SEQUENCE_OU", A, Echo),
      Node("SEQUENCE_OU", Node("SEQUENCE_ET", Cd, Echo), Vide) }

\* init_shell as evaluer_expr runs it when init_flag is not set.
EvaluerExpr(e) ==
    /\ Prompt
    /\ IF init_flag
       THEN UNCHANGED <<job_list, handlers, interactive, tty_pgrp, init_flag>>
       ELSE /\ handlers' = "act"
            /\ job_list' = [i \in Slots |-> ZeroJob]
            /\ IF session_leader
               THEN \* setpgid fails (EPERM): return 0 before the rest
                    UNCHANGED <<interactive, tty_pgrp, init_flag>>
               ELSE /\ interactive' = (tcsetpgrp(tty_pgrp, fds, procs, ShellPid) = ShellPid)
                    /\ tty_pgrp' = tcsetpgrp(tty_pgrp, fds, procs, ShellPid)
                    /\ init_flag' = TRUE
    /\ stack' = <<expression_handler(e, JFG, interactive'),
                  [Frame(e, JFG, interactive', "top_reap")
                      EXCEPT !.sv = <<fds[0].f, fds[1].f, fds[2].f>>]>>
    /\ trace' = <<>>
    /\ shown' = {}
    /\ UNCHANGED <<last_job, fg_job, laststatus, sigchld, procs, nextpid, fds,
                   faults, ret, s_in, s_out,
                   session_leader, cmd_arg, cmd_buf, cmd_n>>

ReturnVide ==
    /\ AtPc("vide")
    /\ Return(INTERNSTATUS)
    /\ UNCHANGED <<job_list, last_job, fg_job, init_flag, interactive,
                   laststatus, handlers, sigchld, procs, nextpid, tty_pgrp,
                   fds, faults, trace, shown, s_in, s_out,
                   session_leader, cmd_arg, cmd_buf, cmd_n>>

(***************************************************************************)
(* Built-in commands.                                                      *)
(***************************************************************************)
RECURSIVE DisplayFrom(_, _, _)
DisplayFrom(jl, sh, i) ==
    IF i >= MAXJOBS THEN sh
    ELSE DisplayFrom(jl, IF jl[i].pid # 0 THEN display_job(sh, jl[i]) ELSE sh, i + 1)

\* internal_cmd, for the built-ins other than fg and bg.
InternalCmd ==
    /\ AtPc("cmd")
    /\ CmdName(Top) \in Builtins \ {"fg", "bg"}
    /\ shown' = IF CmdName(Top) = "jobs" THEN DisplayFrom(job_list, shown, 0) ELSE shown
    /\ \E r \in (IF CmdName(Top) = "cd" THEN {0, 1} ELSE {0}) : Return(r)
    /\ UNCHANGED <<job_list, last_job, fg_job, init_flag, interactive,
                   laststatus, handlers, sigchld, procs, nextpid, tty_pgrp,
                   fds, faults, trace, s_in, s_out,
                   session_leader, cmd_arg, cmd_buf, cmd_n>>

\* cmd_jobctrl, find by name: the first occupied slot whose cmd is the name.
ByName(jl, name) ==
    IF \E i \in Slots : jl[i].cmd = name /\ jl[i].pid # 0
    THEN CHOOSE i \in Slots : /\ jl[i].cmd = name /\ jl[i].pid # 0
                              /\ \A j \in Slots : (jl[j].cmd = name /\ jl[j].pid # 0) => i <= j
    ELSE NULL

\* cmd_jobctrl, find by last job: last_job after the rescan.
Rescan(jl, lj) ==
    IF jl[lj].state = JDONE /\ \E i \in Slots : jl[i].pid # 0 /\ jl[i].state # JDONE
    THEN CHOOSE i \in Slots : /\ jl[i].pid # 0 /\ jl[i].state # JDONE
                              /\ \A j \in Slots : (jl[j].pid # 0 /\ jl[j].state # JDONE) => i <= j
    ELSE lj

\* cmd_jobctrl, the scan for a more recent job (pid higher), from slot i.
RECURSIVE MoreRecent(_, _, _)
MoreRecent(jl, tmp, i) ==
    IF i >= MAXJOBS THEN tmp
    ELSE MoreRecent(jl,
                    IF jl[i].pid # 0 /\ jl[i].state # JDONE /\ jl[i].pid >= jl[tmp].pid
                    THEN i ELSE tmp,
                    i + 1)

CmdJobctrl ==
    /\ AtPc("cmd")
    /\ IsJobctrl(Top)
    /\ LET bg == IF CmdName(Top) = "bg" THEN JBG ELSE JFG
           named == Len(Top.e.arguments) > 1
           lj == IF named THEN last_job ELSE Rescan(job_list, last_job)
           tmp == IF named THEN ByName(job_list, Top.e.arguments[2])
                  ELSE IF job_list[lj].state = JDONE THEN NULL
                  ELSE MoreRecent(job_list, lj, 0)
       IN /\ last_job' = lj
          /\ IF tmp = NULL \/ (bg = JBG /\ job_list[tmp].state = JRUNNING)
             THEN Return(1)
             ELSE /\ stack' = SetTop([Top EXCEPT !.job = tmp,
                                         !.pc = IF bg = JBG THEN "to_bg" ELSE "to_fg"])
                  /\ ret' = ret
    /\ UNCHANGED <<job_list, fg_job, init_flag, interactive, laststatus,
                   handlers, sigchld, procs, nextpid, tty_pgrp, fds, faults, trace, shown, s_in, s_out,
                   session_leader, cmd_arg, cmd_buf, cmd_n>>

(***************************************************************************)
(* Launching a job: start_cmd, start_sequence in background, launch_job.   *)
(***************************************************************************)
\* fork () in the shell: a new child, or -1.
Fork(next) ==
    IF nextpid <= MaxPid
    THEN /\ procs' = [procs EXCEPT ![nextpid] = [st |-> "run", ws |-> 0, rep |-> FALSE]]
         /\ nextpid' = nextpid + 1
         /\ stack' = SetTop([Top EXCEPT !.pid = nextpid, !.pc = next])
    ELSE /\ stack' = SetTop([Top EXCEPT !.pid = -1, !.pc = next])
         /\ UNCHANGED <<procs, nextpid>>

\* start_cmd, for a command that is no built-in: the fork.
StartCmdFork ==
    /\ AtPc("cmd")
    /\ CmdName(Top) \notin Builtins
    /\ Fork("register")
    /\ UNCHANGED <<job_list, last_job, fg_job, init_flag, interactive,
                   laststatus, handlers, sigchld, tty_pgrp, fds, faults, ret,
                   trace, shown, s_in, s_out,
                   session_leader, cmd_arg, cmd_buf, cmd_n>>

\* start_sequence with options == JBG: the fork.
StartSequenceFork ==
    /\ AtPc("seq_fork")
    /\ Fork("register")
    /\ UNCHANGED <<job_list, last_job, fg_job, init_flag, interactive,
                   laststatus, handlers, sigchld, tty_pgrp, fds, faults, ret,
                   trace, shown, s_in, s_out,
                   session_leader, cmd_arg, cmd_buf, cmd_n>>

\* The parent after the fork: register_job, and the full-table return.
RegisterJob ==
    /\ AtPc("register")
    /\ LET i == FreeSlot(job_list) IN
       IF i = NULL
       THEN /\ Return(INTERNSTATUS + 1)
            /\ UNCHANGED job_list
       ELSE /\ job_list' = register_job(job_list, Top.pid, Top.pid,
                                        Top.options, CmdName(Top))
            /\ stack' = SetTop([Top EXCEPT !.job = i, !.pc = "launch"])
            /\ ret' = ret
    /\ UNCHANGED <<last_job, fg_job, init_flag, interactive, laststatus,
                   handlers, sigchld, procs, nextpid, tty_pgrp, fds, faults, trace, shown, s_in, s_out,
                   session_leader, cmd_arg, cmd_buf, cmd_n>>

\* launch_job up to the choice between foreground and background.
LaunchJob ==
    /\ AtPc("launch")
    /\ job_list' = [job_list EXCEPT ![Top.job].state = JSTOPPED]
    /\ stack' = SetTop([Top EXCEPT !.pc =
                   IF job_list[Top.job].background = JFG THEN "to_fg" ELSE "to_bg"])
    /\ UNCHANGED <<last_job, fg_job, init_flag, interactive, laststatus,
                   handlers, sigchld, procs, nextpid, tty_pgrp, fds, faults,
                   ret, trace, shown, s_in, s_out,
                   session_leader, cmd_arg, cmd_buf, cmd_n>>

\* What the caller of send_to_foreground / send_to_background does next:
\* cmd_jobctrl returns 0, start_sequence returns INTERNSTATUS, start_cmd
\* goes on to read job->status when its options are JFG.
AfterLaunch(f) ==
    IF IsJobctrl(f) THEN Return(0)
    ELSE IF f.options = JFG
    THEN /\ stack' = SetTop([f EXCEPT !.pc = "cmd_ret"])
         /\ ret' = ret
    ELSE Return(INTERNSTATUS)

send_to_background(j) == [j EXCEPT !.state = JRUNNING]

SendToBackground ==
    /\ AtPc("to_bg")
    /\ LET j == job_list[Top.job] IN
       /\ procs' = IF j.state = JSTOPPED THEN Continued(procs, j.pid) ELSE procs
       /\ job_list' = [job_list EXCEPT ![Top.job] = send_to_background(@)]
       /\ last_job' = Top.job
       /\ sigchld' = Chld(procs, procs', handlers, sigchld)
    /\ AfterLaunch(Top)
    /\ UNCHANGED <<fg_job, init_flag, interactive, laststatus, handlers,
                   nextpid, tty_pgrp, fds, faults, trace, shown,
                   s_in, s_out,
                   session_leader, cmd_arg, cmd_buf, cmd_n>>

\* send_to_foreground up to the wait.
SendToForeground ==
    /\ AtPc("to_fg")
    /\ LET j == job_list[Top.job] IN
       /\ handlers' = "dfl"
       /\ sigchld' = FALSE
       /\ tty_pgrp' = IF interactive THEN tcsetpgrp(tty_pgrp, fds, procs, j.pid)
                      ELSE tty_pgrp
       /\ fg_job' = Top.job
       /\ procs' = IF j.state = JSTOPPED THEN Continued(procs, j.pid) ELSE procs
    /\ stack' = SetTop([Top EXCEPT !.pc = "wait"])
    /\ UNCHANGED <<job_list, last_job, init_flag, interactive, laststatus,
                   nextpid, fds, faults, ret, trace, shown, s_in,
                   s_out,
                   session_leader, cmd_arg, cmd_buf, cmd_n>>

\* The children waitpid (pid, ..) looks at.
WaitTargets(pr, pid) ==
    IF pid = -1 THEN {p \in Pids : Exists(pr, p)}
    ELSE {p \in Pids : p = pid /\ Exists(pr, p)}

\* send_to_foreground from the wait on: waitpid (WUNTRACED), set_status_job,
\* the shell's handlers, the terminal.
FgWait ==
    /\ AtPc("wait")
    /\ LET j == job_list[Top.job]
           T == WaitTargets(procs, j.pid)
       IN \/ /\ T = {}
             /\ job_list' = [job_list EXCEPT ![Top.job] = set_status_job(@, j.status)]
             /\ UNCHANGED procs
          \/ \E t \in T :
                /\ HasEvent(procs, t)
                /\ job_list' = [job_list EXCEPT ![Top.job] =
                                   set_status_job([@ EXCEPT !.status = EventStatus(procs, t)],
                                                  EventStatus(procs, t))]
                /\ procs' = Reported(procs, t)
    /\ handlers' = "act"
    /\ tty_pgrp' = IF interactive THEN tcsetpgrp(tty_pgrp, fds, procs', ShellPid)
                   ELSE tty_pgrp
    /\ AfterLaunch(Top)
    /\ UNCHANGED <<last_job, fg_job, init_flag, interactive, laststatus,
                   sigchld, nextpid, fds, faults, trace, shown,
                   s_in, s_out,
                   session_leader, cmd_arg, cmd_buf, cmd_n>>

\* start_cmd: return job->status.
StartCmdReturn ==
    /\ AtPc("cmd_ret")
    /\ Return(job_list[Top.job].status)
    /\ UNCHANGED <<job_list, last_job, fg_job, init_flag, interactive,
                   laststatus, handlers, sigchld, procs, nextpid, tty_pgrp,
                   fds, faults, trace, shown, s_in, s_out,
                   session_leader, cmd_arg, cmd_buf, cmd_n>>

(***************************************************************************)
(* start_sequence in foreground.                                           *)
(***************************************************************************)
\* A switch with the tests of SEQUENCE_ET and SEQUENCE_OU exchanged.
RunsRight_exchanged(type, wstatus) ==
    CASE type = "SEQUENCE_ET" -> wstatus # 0
      [] type = "SEQUENCE_OU" -> wstatus = 0
      [] OTHER -> TRUE

\* The switch on e->type: whether the right side runs, given the
\* canonicalized status of the left side.
RunsRight(type, wstatus) ==
    CASE type = "SEQUENCE_ET" -> wstatus = 0
      [] type = "SEQUENCE_OU" -> wstatus # 0
      [] OTHER -> TRUE

SeqLeft ==
    /\ AtPc("seq_left")
    /\ stack' = Call([Top EXCEPT !.pc = "seq_gate", !.nl = @ + 1],
                     expression_handler(Top.e.gauche, Top.options, FALSE))
    /\ UNCHANGED <<job_list, last_job, fg_job, init_flag, interactive,
                   laststatus, handlers, sigchld, procs, nextpid, tty_pgrp,
                   fds, faults, ret, trace, shown, s_in, s_out,
                   session_leader, cmd_arg, cmd_buf, cmd_n>>

SeqGate ==
    /\ AtPc("seq_gate")
    /\ LET w == STATUS(ret) IN
       IF RunsRight(Top.e.type, w)
       THEN stack' = Call([Top EXCEPT !.pc = "seq_ret", !.wstatus = w,
                                       !.sv = <<ret>>, !.nr = @ + 1],
                          expression_handler(Top.e.droite, Top.options, FALSE))
       ELSE stack' = SetTop([Top EXCEPT !.pc = "seq_ret", !.wstatus = w,
                                        !.sv = <<ret>>])
    /\ UNCHANGED <<job_list, last_job, fg_job, init_flag, interactive,
                   laststatus, handlers, sigchld, procs, nextpid, tty_pgrp,
                   fds, faults, ret, trace, shown, s_in, s_out,
                   session_leader, cmd_arg, cmd_buf, cmd_n>>

\* The value start_sequence is about to return.
SeqResult(f, r) == STATUS(IF f.nr > 0 THEN r ELSE f.wstatus)

SeqReturn ==
    /\ AtPc("seq_ret")
    /\ Return(SeqResult(Top, ret))
    /\ UNCHANGED <<job_list, last_job, fg_job, init_flag, interactive,
                   laststatus, handlers, sigchld, procs, nextpid, tty_pgrp,
                   fds, faults, trace, shown, s_in, s_out,
                   session_leader, cmd_arg, cmd_buf, cmd_n>>

(***************************************************************************)
(* The descriptor table of the shell process.                              *)
(***************************************************************************)
FreeFds(fd) == {n \in Fds : fd[n].f = "closed"}
\* The descriptor number dup, open and pipe2 hand out: the lowest free one.
Lowest(fd) ==
    IF FreeFds(fd) = {} THEN -1
    ELSE CHOOSE n \in FreeFds(fd) : \A m \in FreeFds(fd) : n <= m
\* Each descriptor remembers the layer that created it ("by").
OpenedAs(fd, file, by, id) ==
    [fd EXCEPT ![Lowest(fd)] = [f |-> file, by |-> by, id |-> id]]
Opened(fd, file, by) == OpenedAs(fd, file, by, 0)
CanDup(fd, old) == fd[old].f # "closed" /\ FreeFds(fd) # {}
Dup(fd, old, by) == OpenedAs(fd, fd[old].f, by, fd[old].id)
Dup2(fd, old, new) ==
    [fd EXCEPT ![new] = [f |-> fd[old].f, by |-> @.by, id |-> fd[old].id]]
\* pipe2 makes a new pipe: one no open descriptor belongs to.
NewPipe(fd) ==
    CHOOSE i \in 1 .. MaxFd + 1 :
        /\ \A n \in Fds : fd[n].id # i
        /\ \A j \in 1 .. i - 1 : \E n \in Fds : fd[n].id = j
\* close (n) releases the descriptor, also when it reports an error.
Close(fd, n) == IF n \in Fds THEN [fd EXCEPT ![n] = Closed] ELSE fd

\* The standard descriptors a redirection node aliases, in the order of
\* the switch on e->type.
RedirTargets(type) ==
    CASE type = "REDIRECTION_I" -> <<0>>
      [] type = "REDIRECTION_E" -> <<2>>
      [] type = "REDIRECTION_EO" -> <<2, 1>>
      [] OTHER -> <<1>>

(***************************************************************************)
(* lay_redirection.  In the operators below k is the number of the system  *)
(* call the environment makes fail (0: none); "hit" tells whether that     *)
(* call was reached.                                                       *)
(***************************************************************************)
\* A layer that goes on to the evaluation although a step failed.
redirection_enter_anyway(fd, type, k) ==
    LET ok1 == k # 1 /\ CanDup(fd, 1)
        fd1 == IF ok1 THEN Dup(fd, 1, "redir") ELSE fd
        ok4 == k # 4 /\ FreeFds(fd1) # {}
        f   == IF ok4 THEN Lowest(fd1) ELSE -1
        fd4 == IF ok4 THEN Opened(fd1, "file", "redir") ELSE fd1
    IN  [fd |-> fd4, ok |-> TRUE, sv |-> <<IF ok1 THEN Lowest(fd) ELSE -1, -1, -1, f>>,
         hit |-> k \in {1, 4}]

\* lay_redirection up to the evaluation of e->gauche.
redirection_enter(fd, type, k) ==
    LET ok1 == k # 1 /\ CanDup(fd, 1)
        out == IF ok1 THEN Lowest(fd) ELSE -1
        fd1 == IF ok1 THEN Dup(fd, 1, "redir") ELSE fd
        ok2 == k # 2 /\ CanDup(fd1, 0)
        in  == IF ok2 THEN Lowest(fd1) ELSE -1
        fd2 == IF ok2 THEN Dup(fd1, 0, "redir") ELSE fd1
        ok3 == k # 3 /\ CanDup(fd2, 2)
        err == IF ok3 THEN Lowest(fd2) ELSE -1
        fd3 == IF ok3 THEN Dup(fd2, 2, "redir") ELSE fd2
        ok4 == k # 4 /\ FreeFds(fd3) # {}
        f   == IF ok4 THEN Lowest(fd3) ELSE -1
        fd4 == IF ok4 THEN Opened(fd3, "file", "redir") ELSE fd3
        T   == RedirTargets(type)
        fd5 == Dup2(fd4, f, T[1])
        fd6 == IF Len(T) > 1 THEN Dup2(fd5, f, T[2]) ELSE fd5
        sv  == <<out, in, err, f>>
    IN  IF ~(ok1 /\ ok2 /\ ok3)
        THEN [fd |-> fd3, ok |-> FALSE, sv |-> sv, hit |-> k \in 1 .. 3]
        ELSE IF ~ok4
        THEN [fd |-> fd3, ok |-> FALSE, sv |-> sv, hit |-> k = 4]
        ELSE IF k = 5
        THEN [fd |-> Close(fd4, f), ok |-> FALSE, sv |-> sv, hit |-> TRUE]
        ELSE IF k = 6 /\ Len(T) > 1
        THEN [fd |-> Close(fd5, f), ok |-> FALSE, sv |-> sv, hit |-> TRUE]
        ELSE [fd |-> fd6, ok |-> TRUE, sv |-> sv, hit |-> FALSE]

\* lay_redirection after the evaluation of e->gauche: the restores, the
\* closes and the labels err4, err3, err2, err.
redirection_exit(fd, sv, k) ==
    LET out == sv[1]
        in  == sv[2]
        err == sv[3]
        f   == sv[4]
        a1  == Dup2(fd, in, 0)
        a2  == Close(a1, in)
        a3  == Dup2(a2, out, 1)
        a4  == Close(a3, out)
        a5  == Dup2(a4, err, 2)
        a6  == Close(a5, err)
        a7  == Close(a6, f)
    IN  CASE k = 1 -> [fd |-> Close(fd, f), ok |-> FALSE]
          [] k = 2 -> [fd |-> Close(a2, f), ok |-> FALSE]
          [] k = 3 -> [fd |-> Close(Close(a2, in), f), ok |-> FALSE]
          [] k = 4 -> [fd |-> Close(Close(a4, in), f), ok |-> FALSE]
          [] k = 5 -> [fd |-> Close(Close(Close(a4, out), in), f), ok |-> FALSE]
          [] k = 6 -> [fd |-> Close(Close(Close(a6, out), in), f), ok |-> FALSE]
          [] k = 7 -> [fd |-> a7, ok |-> FALSE]
          [] OTHER -> [fd |-> a7, ok |-> TRUE]

LayRedirectionEnter ==
    /\ AtPc("redir")
    /\ \E k \in 0 .. 6 :
          LET r == redirection_enter(fds, Top.e.type, k) IN
          /\ k = 0 \/ (r.hit /\ faults < MaxFaults)
          /\ faults' = IF k = 0 THEN faults ELSE faults + 1
          /\ fds' = r.fd
          /\ IF r.ok
             THEN /\ stack' = Call([Top EXCEPT !.pc = "redir_exit", !.sv = r.sv],
                                   expression_handler(Top.e.gauche, Top.options, FALSE))
                  /\ ret' = ret
             ELSE Return(-1)
    /\ UNCHANGED <<job_list, last_job, fg_job, init_flag, interactive,
                   laststatus, handlers, sigchld, procs, nextpid, tty_pgrp,
                   trace, shown, s_in, s_out,
                   session_leader, cmd_arg, cmd_buf, cmd_n>>

LayRedirectionExit ==
    /\ AtPc("redir_exit")
    /\ \E k \in 0 .. 7 :
          LET r == redirection_exit(fds, Top.sv, k) IN
          /\ k = 0 \/ faults < MaxFaults
          /\ faults' = IF k = 0 THEN faults ELSE faults + 1
          /\ fds' = r.fd
          /\ Return(IF r.ok THEN ret ELSE -1)
    /\ UNCHANGED <<job_list, last_job, fg_job, init_flag, interactive,
                   laststatus, handlers, sigchld, procs, nextpid, tty_pgrp,
                   trace, shown, s_in, s_out,
                   session_leader, cmd_arg, cmd_buf, cmd_n>>

(***************************************************************************)
(* lay_pipeline.                                                           *)
(***************************************************************************)
\* lay_pipeline up to the evaluation of e->droite.
pipeline_enter(fd, k) ==
    LET ok1 == k # 1 /\ Cardinality(FreeFds(fd)) >= 2
        p0  == IF ok1 THEN Lowest(fd) ELSE -1
        id  == NewPipe(fd)
        f0  == IF ok1 THEN OpenedAs(fd, "pipe_r", "pipe", id) ELSE fd
        p1  == IF ok1 THEN Lowest(f0) ELSE -1
        fd1 == IF ok1 THEN OpenedAs(f0, "pipe_w", "pipe", id) ELSE fd
        ok2 == k # 2 /\ CanDup(fd1, 1)
        out == IF ok2 THEN Lowest(fd1) ELSE -1
        fd2 == IF ok2 THEN Dup(fd1, 1, "pipe") ELSE fd1
        ok3 == k # 3 /\ CanDup(fd2, 0)
        in  == IF ok3 THEN Lowest(fd2) ELSE -1
        fd3 == IF ok3 THEN Dup(fd2, 0, "pipe") ELSE fd2
        fd4 == Dup2(fd3, p0, 0)
        fd5 == Close(fd4, p0)
        sv  == <<p0, p1, out, in, id>>
    IN  IF ~ok1
        THEN [fd |-> fd, ok |-> FALSE, sv |-> sv, hit |-> k = 1]
        ELSE IF ~(ok2 /\ ok3)
        THEN [fd |-> fd3, ok |-> FALSE, sv |-> sv, hit |-> k \in 2 .. 3]
        ELSE IF k = 4
        THEN [fd |-> fd3, ok |-> FALSE, sv |-> sv, hit |-> TRUE]
        ELSE IF k = 5
        THEN [fd |-> fd5, ok |-> FALSE, sv |-> sv, hit |-> TRUE]
        ELSE [fd |-> fd5, ok |-> TRUE, sv |-> sv, hit |-> FALSE]

\* A layer that restores stdin and forgets to bind stdout to the pipe.
pipeline_mid_unbound(fd, sv, k) ==
    LET b1 == Dup2(fd, sv[4], 0)
        b3 == Close(b1, sv[2])
    IN  CASE k = 1 -> [fd |-> fd, ok |-> FALSE]
          [] k = 2 -> [fd |-> b1, ok |-> FALSE]
          [] k = 3 -> [fd |-> b3, ok |-> FALSE]
          [] OTHER -> [fd |-> b3, ok |-> TRUE]

\* lay_pipeline between the two evaluations.
pipeline_mid(fd, sv, k) ==
    LET b1 == Dup2(fd, sv[4], 0)
        b2 == Dup2(b1, sv[2], 1)
        b3 == Close(b2, sv[2])
    IN  CASE k = 1 -> [fd |-> fd, ok |-> FALSE]
          [] k = 2 -> [fd |-> b1, ok |-> FALSE]
          [] k = 3 -> [fd |-> b3, ok |-> FALSE]
          [] OTHER -> [fd |-> b3, ok |-> TRUE]

\* lay_pipeline after the evaluation of e->gauche.
pipeline_exit(fd, sv, k) ==
    LET c1 == Dup2(fd, sv[3], 1)
        c2 == Close(c1, sv[3])
        c3 == Close(c2, sv[4])
    IN  CASE k = 1 -> [fd |-> fd, ok |-> FALSE]
          [] k = 2 -> [fd |-> c2, ok |-> FALSE]
          [] k = 3 -> [fd |-> c3, ok |-> FALSE]
          [] OTHER -> [fd |-> c3, ok |-> TRUE]

LayPipelineEnter ==
    /\ AtPc("pipe")
    /\ \E k \in 0 .. 5 :
          LET r == pipeline_enter(fds, k) IN
          /\ k = 0 \/ (r.hit /\ faults < MaxFaults)
          /\ faults' = IF k = 0 THEN faults ELSE faults + 1
          /\ fds' = r.fd
          /\ IF r.ok
             THEN /\ stack' = Call([Top EXCEPT !.pc = "pipe_mid", !.sv = r.sv, !.nr = @ + 1],
                                   expression_handler(Top.e.droite, JBG, FALSE))
                  /\ ret' = ret
             ELSE Return(-1)
    /\ UNCHANGED <<job_list, last_job, fg_job, init_flag, interactive,
                   laststatus, handlers, sigchld, procs, nextpid, tty_pgrp,
                   trace, shown, s_in, s_out,
                   session_leader, cmd_arg, cmd_buf, cmd_n>>

LayPipelineMid ==
    /\ AtPc("pipe_mid")
    /\ \E k \in 0 .. 3 :
          LET r == pipeline_mid(fds, Top.sv, k) IN
          /\ k = 0 \/ faults < MaxFaults
          /\ faults' = IF k = 0 THEN faults ELSE faults + 1
          /\ fds' = r.fd
          /\ IF r.ok
             THEN /\ stack' = Call([Top EXCEPT !.pc = "pipe_exit", !.nl = @ + 1],
                                   expression_handler(Top.e.gauche, Top.options, FALSE))
                  /\ ret' = ret
             ELSE Return(-1)
    /\ UNCHANGED <<job_list, last_job, fg_job, init_flag, interactive,
                   laststatus, handlers, sigchld, procs, nextpid, tty_pgrp,
                   trace, shown, s_in, s_out,
                   session_leader, cmd_arg, cmd_buf, cmd_n>>

LayPipelineExit ==
    /\ AtPc("pipe_exit")
    /\ \E k \in 0 .. 3 :
          LET r == pipeline_exit(fds, Top.sv, k) IN
          /\ k = 0 \/ faults < MaxFaults
          /\ faults' = IF k = 0 THEN faults ELSE faults + 1
          /\ fds' = r.fd
          /\ Return(IF r.ok THEN ret ELSE -1)
    /\ UNCHANGED <<job_list, last_job, fg_job, init_flag, interactive,
                   laststatus, handlers, sigchld, procs, nextpid, tty_pgrp,
                   trace, shown, s_in, s_out,
                   session_leader, cmd_arg, cmd_buf, cmd_n>>

(***************************************************************************)
(* evaluer_expr: after the expression was evaluated.                       *)
(***************************************************************************)
\* "If the last foreground job had an error, prioritize it".
Prioritized(jl, fg, wstatus) ==
    IF fg # NULL /\ jl[fg].status # 0 THEN jl[fg].status ELSE wstatus

\* The switch on fg_job->termsig: the slot a fault notice is printed for,
\* or NULL.
Noticed(jl, fg, inter) ==
    IF inter /\ fg # NULL /\ jl[fg].termsig \in {SIGSEGV, SIGKILL, SIGTERM}
    THEN fg ELSE NULL

\* grim_reaper, STATUS, the foreground job's status, laststatus, the fault
\* notice (kept in the frame's job).
TopReap ==
    /\ AtPc("top_reap")
    /\ LET r == grim_reaper(job_list, procs)
           w == Prioritized(r.jl, fg_job, STATUS(ret))
       IN /\ job_list' = r.jl
          /\ procs' = r.pr
          /\ laststatus' = w
          /\ stack' = SetTop([Top EXCEPT !.pc = "top_sweep", !.wstatus = w,
                                         !.job = Noticed(r.jl, fg_job, interactive)])
    /\ UNCHANGED <<last_job, fg_job, init_flag, interactive, handlers, sigchld,
                   nextpid, tty_pgrp, fds, faults, ret, trace,
                   shown, s_in, s_out,
                   session_leader, cmd_arg, cmd_buf, cmd_n>>

\* remove_old_jobs, fg_job = NULL, return wstatus to the read loop.
TopSweep ==
    /\ AtPc("top_sweep")
    /\ LET r == remove_old_jobs(job_list, shown, interactive) IN
       /\ job_list' = r.jl
       /\ shown' = r.sh
    /\ fg_job' = NULL
    /\ stack' = <<>>
    /\ ret' = Top.wstatus
    /\ trace' = <<>>
    /\ UNCHANGED <<last_job, init_flag, interactive, laststatus, handlers,
                   sigchld, procs, nextpid, tty_pgrp, fds, faults,
                   s_in, s_out,
                   session_leader, cmd_arg, cmd_buf, cmd_n>>

(***************************************************************************)
(* The environment: what the children do.                                  *)
(***************************************************************************)
\* The main flow is launching or waiting for child p.
Launching(p) == \E k \in 1 .. Len(stack) : stack[k].pid = p

Ends(p, ws) ==
    /\ procs' = [procs EXCEPT ![p] = [st |-> "zombie", ws |-> ws, rep |-> FALSE]]
    /\ sigchld' = Chld(procs, procs', handlers, sigchld)
    /\ trace' = IF Launching(p) THEN Append(trace, <<p, ws>>) ELSE trace
    /\ UNCHANGED <<job_list, last_job, fg_job, init_flag, interactive,
                   laststatus, handlers, nextpid, tty_pgrp, fds, faults, stack,
                   ret, shown, s_in, s_out,
                   session_leader, cmd_arg, cmd_buf, cmd_n>>

ChildExit(p) ==
    /\ procs[p].st = "run"
    /\ \E code \in {0, 1} : Ends(p, WExited(code))

ChildKilled(p) ==
    /\ procs[p].st \in {"run", "stop"}
    /\ Ends(p, WSignaled(SIGSEGV))

\* A stop signal (from the terminal or from anywhere) stops child p.
ChildStop(p) ==
    /\ procs[p].st = "run"
    /\ procs' = Suspended(procs, p)
    /\ sigchld' = Chld(procs, procs', handlers, sigchld)
    /\ UNCHANGED <<job_list, last_job, fg_job, init_flag, interactive,
                   laststatus, handlers, nextpid, tty_pgrp, fds, faults, stack,
                   ret, trace, shown, s_in, s_out,
                   session_leader, cmd_arg, cmd_buf, cmd_n>>

(***************************************************************************)
(* sig_handler, run when a signal is delivered to the shell while the      *)
(* shell's own handlers are installed.                                     *)
(***************************************************************************)
SigChld ==
    /\ handlers = "act"
    /\ sigchld
    /\ LET r == grim_reaper(job_list, procs) IN
       /\ job_list' = r.jl
       /\ procs' = r.pr
    /\ sigchld' = FALSE
    /\ UNCHANGED <<last_job, fg_job, init_flag, interactive, laststatus,
                   handlers, nextpid, tty_pgrp, fds, faults, stack, ret, trace, shown, s_in, s_out,
                   session_leader, cmd_arg, cmd_buf, cmd_n>>

SigInt ==
    /\ handlers = "act"
    /\ fg_job # NULL
    /\ procs' = Interrupted(procs, job_list[fg_job].pid)
    /\ sigchld' = Chld(procs, procs', handlers, sigchld)
    /\ UNCHANGED <<job_list, last_job, fg_job, init_flag, interactive,
                   laststatus, handlers, nextpid, tty_pgrp, fds, faults, stack,
                   ret, trace, shown, s_in, s_out,
                   session_leader, cmd_arg, cmd_buf, cmd_n>>

suspend_job(j) == [j EXCEPT !.state = JSTOPPED, !.background = JBG]

SigTstp ==
    /\ handlers = "act"
    /\ fg_job # NULL
    /\ procs' = Suspended(procs, job_list[fg_job].pid)
    /\ job_list' = [job_list EXCEPT ![fg_job] = suspend_job(@)]
    /\ last_job' = fg_job
    /\ sigchld' = Chld(procs, procs', handlers, sigchld)
    /\ UNCHANGED <<fg_job, init_flag, interactive, laststatus, handlers,
                   nextpid, tty_pgrp, fds, faults, stack, ret,
                   trace, shown, s_in, s_out,
                   session_leader, cmd_arg, cmd_buf, cmd_n>>

(***************************************************************************)
(* Signals delivered to the shell while send_to_foreground has installed   *)
(* the default dispositions (register_signals (&sigdfl)).                  *)
(***************************************************************************)
\* SIGTSTP with its default action: the shell process itself is stopped, in
\* its waitpid.
SigTstpDefault ==
    /\ handlers = "dfl"
    /\ AtPc("wait")
    /\ stack' = SetTop([Top EXCEPT !.pc = "stopped"])
    /\ UNCHANGED <<job_list, last_job, fg_job, init_flag, interactive,
                   laststatus, handlers, sigchld, procs, nextpid, tty_pgrp,
                   fds, faults, ret, trace, shown, s_in, s_out,
                   session_leader, cmd_arg, cmd_buf, cmd_n>>

\* A SIGCONT from outside lets the stopped shell go on with its waitpid.
ShellCont ==
    /\ AtPc("stopped")
    /\ stack' = SetTop([Top EXCEPT !.pc = "wait"])
    /\ UNCHANGED <<job_list, last_job, fg_job, init_flag, interactive,
                   laststatus, handlers, sigchld, procs, nextpid, tty_pgrp,
                   fds, faults, ret, trace, shown, s_in, s_out,
                   session_leader, cmd_arg, cmd_buf, cmd_n>>

\* SIGTTIN, SIGTTOU: get back control of the terminal.
SigTtou ==
    /\ handlers = "act"
    /\ tty_pgrp' = tcsetpgrp(tty_pgrp, fds, procs, ShellPid)
    /\ UNCHANGED <<job_list, last_job, fg_job, init_flag, interactive,
                   laststatus, handlers, sigchld, procs, nextpid, fds, faults,
                   stack, ret, trace, shown, s_in, s_out,
                   session_leader, cmd_arg, cmd_buf, cmd_n>>

(***************************************************************************)
(* The specification of the shell.                                         *)
(***************************************************************************)
Next ==
    \/ \E e \in Exprs : EvaluerExpr(e)
    \/ ReturnVide
    \/ InternalCmd
    \/ CmdJobctrl
    \/ StartCmdFork
    \/ StartSequenceFork
    \/ RegisterJob
    \/ LaunchJob
    \/ SendToBackground
    \/ SendToForeground
    \/ FgWait
    \/ StartCmdReturn
    \/ SeqLeft
    \/ SeqGate
    \/ SeqReturn
    \/ TopReap
    \/ TopSweep
    \/ \E p \in Pids : ChildExit(p)
    \/ \E p \in Pids : ChildKilled(p)
    \/ \E p \in Pids : ChildStop(p)
    \/ SigChld
    \/ SigInt
    \/ SigTstp
    \/ SigTtou
    \/ SigTstpDefault
    \/ ShellCont

Spec == Init /\ [][Next]_vars

(***************************************************************************)
(* The shell reading pipelines and redirections.  The children run and     *)
(* terminate; their stops are explored by Spec.                            *)
(***************************************************************************)
NextIO ==
    \/ \E e \in ExprsIO : EvaluerExpr(e)
    \/ InternalCmd
    \/ StartCmdFork
    \/ RegisterJob
    \/ LaunchJob
    \/ SendToBackground
    \/ SendToForeground
    \/ FgWait
    \/ StartCmdReturn
    \/ LayRedirectionEnter
    \/ LayRedirectionExit
    \/ LayPipelineEnter
    \/ LayPipelineMid
    \/ LayPipelineExit
    \/ TopReap
    \/ TopSweep
    \/ \E p \in Pids : ChildExit(p)
    \/ \E p \in Pids : ChildKilled(p)
    \/ SigChld
    \/ SigInt
    \/ SigTtou

SpecIO == Init /\ [][NextIO]_vars

(***************************************************************************)
(* The shell reading sequences of foreground commands.                     *)
(***************************************************************************)
NextSeq ==
    \/ \E e \in ExprsSeq : EvaluerExpr(e)
    \/ ReturnVide
    \/ InternalCmd
    \/ StartCmdFork
    \/ RegisterJob
    \/ LaunchJob
    \/ SendToForeground
    \/ FgWait
    \/ StartCmdReturn
    \/ SeqLeft
    \/ SeqGate
    \/ SeqReturn
    \/ TopReap
    \/ TopSweep
    \/ \E p \in Pids : ChildExit(p)
    \/ \E p \in Pids : ChildKilled(p)
    \/ \E p \in Pids : ChildStop(p)
    \/ SigChld
    \/ SigInt
    \/ SigTstp
    \/ SigTtou

SpecSeq == Init /\ [][NextSeq]_vars

(***************************************************************************)
(* The shell reading launches of one job, in foreground or background.     *)
(* The children run and terminate; their stops are explored by Spec.       *)
(***************************************************************************)
ExprsJobs == { A, Bg(A), Bg(Node("SEQUENCE", A, A)) }

NextJobs ==
    \/ \E e \in ExprsJobs : EvaluerExpr(e)
    \/ StartCmdFork
    \/ StartSequenceFork
    \/ RegisterJob
    \/ LaunchJob
    \/ SendToBackground
    \/ SendToForeground
    \/ FgWait
    \/ StartCmdReturn
    \/ TopReap
    \/ TopSweep
    \/ \E p \in Pids : ChildExit(p)
    \/ \E p \in Pids : ChildKilled(p)
    \/ SigChld
    \/ SigInt
    \/ SigTtou

SpecJobs == Init /\ [][NextJobs]_vars

\* The same, for a shell started by anything.
SpecAny == InitAny /\ [][NextJobs]_vars

\* The main flow of the shell: a sequential program that takes its next
\* step whenever it can, in a read loop that never ends (while (1)).
MainFlow ==
    \/ \E e \in ExprsJobs : EvaluerExpr(e)
    \/ StartCmdFork
    \/ StartSequenceFork
    \/ RegisterJob
    \/ LaunchJob
    \/ SendToBackground
    \/ SendToForeground
    \/ FgWait
    \/ StartCmdReturn
    \/ TopReap
    \/ TopSweep

\* The shell that goes on reading and evaluating, its pending SIGCHLD being
\* delivered.
SpecJobsFair == SpecJobs /\ WF_vars(MainFlow) /\ WF_vars(SigChld)

(***************************************************************************)
(* The shell reading redirected commands.                                  *)
(***************************************************************************)
ExprsRedir ==
    { Redir("REDIRECTION_I", A), Redir("REDIRECTION_EO", Echo),
      Redir("REDIRECTION_O", Redir("REDIRECTION_E", Echo)) }

NextRedir ==
    \/ \E e \in ExprsRedir : EvaluerExpr(e)
    \/ InternalCmd
    \/ StartCmdFork
    \/ RegisterJob
    \/ LaunchJob
    \/ SendToForeground
    \/ FgWait
    \/ StartCmdReturn
    \/ LayRedirectionEnter
    \/ LayRedirectionExit
    \/ TopReap
    \/ TopSweep
    \/ \E p \in Pids : ChildExit(p)
    \/ \E p \in Pids : ChildKilled(p)
    \/ SigChld
    \/ SigInt
    \/ SigTtou

SpecRedir == Init /\ [][NextRedir]_vars

(***************************************************************************)
(* The shell reading commands in foreground, in background and in a        *)
(* sequence, and empty lines.  The children exit, are killed, or are       *)
(* stopped from the terminal; fork may fail and the job table may be full. *)
(* (The statuses of the descriptor layers are explored by SpecRedir and    *)
(* SpecIO.)                                                                *)
(***************************************************************************)
ExprsTop == { A, Bg(A), Node("SEQUENCE_ET", A, Vide), Vide }

\* The suspend key of the terminal: the stop signal goes to the terminal's
\* foreground process group.
TerminalStop == \E p \in Pids : tty_pgrp = p /\ ChildStop(p)

NextTop ==
    \/ \E e \in ExprsTop : EvaluerExpr(e)
    \/ ReturnVide
    \/ StartCmdFork
    \/ RegisterJob
    \/ LaunchJob
    \/ SendToBackground
    \/ SendToForeground
    \/ FgWait
    \/ StartCmdReturn
    \/ SeqLeft
    \/ SeqGate
    \/ SeqReturn
    \/ TopReap
    \/ TopSweep
    \/ \E p \in Pids : ChildExit(p)
    \/ \E p \in Pids : ChildKilled(p)
    \/ TerminalStop
    \/ SigChld
    \/ SigInt
    \/ SigTstp
    \/ SigTtou

SpecTop == Init /\ [][NextTop]_vars

(***************************************************************************)
(* The process forked to run a background sequence.  It runs               *)
(* start_sequence (e, JFG, notify) with the shell's variables as they were *)
(* at the fork: each command of the sequence goes through start_cmd,       *)
(* launch_job and send_to_foreground in that process.                      *)
(***************************************************************************)
\* The process group of the command child p has launched.
Grandchild(p) == ShellPid + p

IsSequenceChild(p) ==
    \E i \in Slots : job_list[i].pid = p /\ job_list[i].cmd = "Sequence"

\* send_to_foreground in child p: if (interactive) tcsetpgrp (0, job->pid).
\* Called from the terminal's foreground group it moves the terminal to the
\* command's group; called from a background group it makes the terminal
\* send SIGTTOU, whose default action stops the caller.
SequenceChildForeground(p) ==
    /\ procs[p].st = "run"
    /\ IsSequenceChild(p)
    /\ interactive
    /\ tty_pgrp # NULL
    /\ IF tty_pgrp = p
       THEN /\ tty_pgrp' = Grandchild(p)
            /\ UNCHANGED <<procs, sigchld>>
       ELSE /\ procs' = Suspended(procs, p)
            /\ sigchld' = Chld(procs, procs', handlers, sigchld)
            /\ UNCHANGED tty_pgrp
    /\ UNCHANGED <<job_list, last_job, fg_job, init_flag, interactive,
                   laststatus, handlers, nextpid, fds, faults, stack,
                   ret, trace, shown, s_in, s_out,
                   session_leader, cmd_arg, cmd_buf, cmd_n>>

ExprsSub == { Bg(Node("SEQUENCE", A, A)), Simple(<<"fg">>) }

NextSub ==
    \/ \E e \in ExprsSub : EvaluerExpr(e)
    \/ CmdJobctrl
    \/ StartSequenceFork
    \/ RegisterJob
    \/ LaunchJob
    \/ SendToBackground
    \/ SendToForeground
    \/ FgWait
    \/ TopReap
    \/ TopSweep
    \/ \E p \in Pids : ChildExit(p)
    \/ \E p \in Pids : ChildKilled(p)
    \/ \E p \in Pids : SequenceChildForeground(p)
    \/ SigChld
    \/ SigInt
    \/ SigTtou

SpecSub == Init /\ [][NextSub]_vars

(***************************************************************************)
(* The command name of a slot.  A C string is the sequence of its bytes,   *)
(* the terminating zero included; cmd_buf[j + 1] is cmd[j].  One slot is   *)
(* registered again and again (it is freed in between), with names of any  *)
(* length up to MaxName.                                                   *)
(***************************************************************************)
MaxName == 17
\* Number of jobs registered in the slot, one after the other.
MaxReg == 2

\* The names: n times the same letter (1 or 2), then the terminator.
Names ==
    { [j \in 1 .. n + 1 |-> IF j = n + 1 THEN 0 ELSE c] :
        n \in 0 .. MaxName, c \in {1, 2} }

\* register_job: the loop that stores the command argument, from index j.
RECURSIVE StoreCmd(_, _, _)
StoreCmd(buf, cmd, j) ==
    IF j >= CMDBUFSZ THEN buf
    ELSE LET b == [buf EXCEPT ![j + 1] = cmd[j + 1]] IN
         IF cmd[j + 1] = 0 THEN b ELSE StoreCmd(b, cmd, j + 1)

RegisterCmd(cmd) ==
    /\ cmd_n < MaxReg
    /\ cmd_n' = cmd_n + 1
    /\ cmd_arg' = cmd
    /\ cmd_buf' = StoreCmd(cmd_buf, cmd, 0)
    /\ UNCHANGED <<job_list, last_job, fg_job, init_flag, interactive,
                   laststatus, handlers, sigchld, procs, nextpid, tty_pgrp,
                   fds, faults, stack, ret, trace, shown, s_in, s_out,
                   session_leader>>

NextCmd == \E cmd \in Names : RegisterCmd(cmd)

SpecCmd == Init /\ [][NextCmd]_vars

(***************************************************************************)
(* The shell reading pipelines of commands.                                *)
(***************************************************************************)
ExprsPipe ==
    { Node("PIPE", A, A), Bg(Node("PIPE", Echo, Echo)),
      Node("PIPE", Node("PIPE", Echo, Echo), Echo) }

NextPipe ==
    \/ \E e \in ExprsPipe : EvaluerExpr(e)
    \/ InternalCmd
    \/ StartCmdFork
    \/ RegisterJob
    \/ LaunchJob
    \/ SendToBackground
    \/ SendToForeground
    \/ FgWait
    \/ StartCmdReturn
    \/ LayPipelineEnter
    \/ LayPipelineMid
    \/ LayPipelineExit
    \/ TopReap
    \/ TopSweep
    \/ \E p \in Pids : ChildExit(p)
    \/ SigChld

SpecPipe == Init /\ [][NextPipe]_vars

(***************************************************************************)
(* The status canonicalization applied to any integer, once and again.     *)
(***************************************************************************)
MaxApply == 2

InitStatus ==
    /\ InitShell
    /\ session_leader = FALSE
    /\ s_in \in (0 - MaxStatus) .. MaxStatus
    /\ s_out = <<>>

Canonicalize ==
    /\ Len(s_out) < MaxApply
    /\ s_out' = Append(s_out, STATUS(IF s_out = <<>> THEN s_in ELSE s_out[Len(s_out)]))
    /\ UNCHANGED <<job_list, last_job, fg_job, init_flag, interactive,
                   laststatus, handlers, sigchld, procs, nextpid, tty_pgrp,
                   fds, faults, stack, ret, trace, shown, s_in,
                   session_leader, cmd_arg, cmd_buf, cmd_n>>

SpecStatus == InitStatus /\ [][Canonicalize]_vars

(***************************************************************************)
(* Properties.                                                             *)
(***************************************************************************)
Occupied(i) == job_list[i].pid # 0

\* C1: whenever the shell is back at its prompt, every occupied job slot
\* whose state is STOPPED has background = BG (a foreground job stopped
\* while the shell waited on it included).
C1_StoppedIsBackground ==
    Prompt => \A i \in Slots :
                 (Occupied(i) /\ job_list[i].state = JSTOPPED)
                     => job_list[i].background = JBG

\* C2: at most one occupied job slot has background = FG, and if there is
\* one it is the slot fg_job refers to, or fg_job is null.
C2_OneForeground ==
    \A i \in Slots :
        (Occupied(i) /\ job_list[i].background = JFG)
            => /\ \A j \in Slots :
                    (Occupied(j) /\ job_list[j].background = JFG) => j = i
               /\ fg_job \in {NULL, i}

\* C3: any two distinct occupied job slots hold different pids.
C3_DistinctPids ==
    \A i, j \in Slots :
        (Occupied(i) /\ Occupied(j) /\ i # j) => job_list[i].pid # job_list[j].pid

\* C4: when the evaluation of an expression with redirection or pipe nodes
\* is over, descriptors 0, 1 and 2 refer to the files they referred to when
\* the evaluation began, whatever step of the layers failed.
C4_StdRestored ==
    AtPc("top_sweep") => \A n \in 0 .. 2 : fds[n].f = Top.sv[n + 1]

\* C5: in interactive mode the terminal's foreground process group is the
\* job's while the shell waits on a foreground job, and the shell's once
\* the wait has returned.
C5_TerminalFollowsJob ==
    (init_flag /\ interactive) =>
        /\ AtPc("wait") => tty_pgrp = job_list[Top.job].pid
        /\ (AtPc("cmd_ret") \/ Prompt) => tty_pgrp = ShellPid

\* C6: once the evaluation has returned and the children have terminated,
\* no descriptor a pipeline created (a pipe end, a saved copy of stdin or
\* stdout) is open in the shell.
C6_NoPipelineDescriptorLeft ==
    (Prompt /\ \A p \in Pids : ~Exists(procs, p))
        => \A n \in Fds : fds[n].by # "pipe"

C8_SequenceGating ==
    \A k \in 1 .. Len(stack) :
        LET f == stack[k] IN
        /\ f.pc = "seq_left" => (f.nl = 0 /\ f.nr = 0)
        /\ f.pc = "seq_gate" => (f.nl = 1 /\ f.nr = 0)
        /\ f.pc = "seq_ret" =>
              /\ f.nl = 1
              /\ f.nr = IF \/ f.e.type = "SEQUENCE"
                           \/ f.e.type = "SEQUENCE_ET" /\ STATUS(f.sv[1]) = 0
                           \/ f.e.type = "SEQUENCE_OU" /\ STATUS(f.sv[1]) # 0
                        THEN 1 ELSE 0
              /\ (k = 1 /\ f.nr = 0) => SeqResult(f, ret) = STATUS(f.sv[1])

\* A SEQUENCE_ET whose left side failed is about to return without having
\* evaluated its right side.
C8_Witness ==
    /\ AtPc("seq_ret")
    /\ Top.e = Node("SEQUENCE_ET", A, Echo)
    /\ Top.nl = 1 /\ Top.nr = 0
    /\ Top.sv = <<1>>
    /\ SeqResult(Top, ret) = 1

C10_DoneBeforeUnregister ==
    [][\A i \in Slots :
          (/\ interactive
           /\ job_list[i].pid \in Pids
           /\ job_list[i].background = JBG
           /\ job_list'[i].pid = 0) => job_list[i].pid \in shown']_vars

\* C11: a terminal-stop signal delivered to the shell while it waits for the
\* foreground job J makes the shell suspend J (state STOPPED, background BG,
\* last_job = J) and leaves the shell itself running.
C11_StopSuspendsJob ==
    [][(AtPc("wait") /\ (SigTstp \/ SigTstpDefault)) =>
          /\ job_list'[Top.job].state = JSTOPPED
          /\ job_list'[Top.job].background = JBG
          /\ last_job' = Top.job
          /\ stack'[1].pc # "stopped"]_vars

\* C12: a job slot whose termsig is nonzero has state DONE.
C12_TermsigIsDone ==
    \A i \in Slots : job_list[i].termsig # 0 => job_list[i].state = JDONE

\* C13: fg_job is null whenever the shell is not inside a foreground wait.
C13_FgJobOnlyInWait ==
    ~(AtPc("wait") \/ AtPc("stopped")) => fg_job = NULL

\* C14: when fork fails no job slot is allocated: no slot holds the pid -1
\* and no launch goes on with a job for a failed fork.
C14_NoSlotForFailedFork ==
    /\ \A i \in Slots : job_list[i].pid # -1
    /\ \A k \in 1 .. Len(stack) : stack[k].pid = -1 => stack[k].job = NULL

\* C19: `fg` or `bg` without a name, when no occupied slot is in a non-DONE
\* state, returns nonzero and changes no job slot (so it resumes nothing and
\* enters no foreground wait).
C19_NothingToResume ==
    [][(/\ AtPc("cmd")
        /\ IsJobctrl(Top)
        /\ Len(Top.e.arguments) = 1
        /\ \A i \in Slots : ~(Occupied(i) /\ job_list[i].state # JDONE)
        /\ stack' # stack) =>
          /\ stack' = Tail(stack)
          /\ ret' # 0
          /\ job_list' = job_list]_vars

\* C20: in interactive mode, when the foreground command of the evaluation
\* was killed by SIGSEGV, the fault notice was printed by the time
\* evaluer_expr sweeps the table and returns.
C20_FaultNoticePrinted ==
    (/\ AtPc("top_sweep")
     /\ interactive
     /\ Top.e = A
     /\ Len(trace) = 1
     /\ trace[1][2] = WSignaled(SIGSEGV)) => Top.job # NULL

\* C15: when every slot of the job table is occupied, the launch of a
\* command returns the job-table-full status, which canonicalizes to a
\* nonzero value, and leaves the job table, fg_job and last_job unchanged.
C15_TableFull ==
    [][(/\ AtPc("register")
        /\ \A i \in Slots : Occupied(i)
        /\ stack' # stack) =>
          /\ stack' = Tail(stack)
          /\ ret' = INTERNSTATUS + 1
          /\ STATUS(ret') # 0
          /\ job_list' = job_list
          /\ fg_job' = fg_job
          /\ last_job' = last_job]_vars

\* A launch has just returned the job-table-full status to evaluer_expr,
\* the table being full of jobs.
C15_Witness ==
    /\ AtPc("top_reap")
    /\ ret = INTERNSTATUS + 1
    /\ \A i \in Slots : Occupied(i) /\ job_list[i].pid \in Pids

\* C16: the redirected subexpression is evaluated only if every descriptor
\* was saved, the file opened and the standard descriptors aliased; if not,
\* the layer returns a status that canonicalizes to nonzero, no process is
\* forked, no job is registered, and the shell goes on.
C16_RedirectionFailure ==
    [][(AtPc("redir") /\ stack' # stack) =>
          IF Len(stack') > Len(stack)
          THEN /\ \A k \in 1 .. 4 :
                     stack'[2].sv[k] \in Fds /\ fds'[stack'[2].sv[k]].f # "closed"
               /\ \A k \in 1 .. Len(RedirTargets(Top.e.type)) :
                     fds'[RedirTargets(Top.e.type)[k]].f = "file"
          ELSE /\ stack' = Tail(stack)
               /\ STATUS(ret') # 0
               /\ procs' = procs
               /\ nextpid' = nextpid
               /\ job_list' = job_list]_vars

\* `a < f` came back to evaluer_expr with a failure status and no process
\* was forked: a step of the layer failed before the evaluation of a.
C16_Witness ==
    /\ AtPc("top_reap")
    /\ Top.e = Redir("REDIRECTION_I", A)
    /\ STATUS(ret) # 0
    /\ faults = 1
    /\ nextpid = 1

\* C17: an expression is evaluated only by a shell whose initialization
\* succeeded; a shell whose initialization failed (twice) has terminated.
C17_EvaluatesOnlyInitialized ==
    stack # <<>> => init_flag

\* C18: a job that is registered and not DONE when the shell is at its prompt
\* is still in its slot, with the same pid, jid and state, when the next
\* evaluation starts evaluating its expression.
C18_TableKeptAcrossEvaluations ==
    [][(Prompt /\ stack' # <<>>) =>
          \A i \in Slots :
              (Occupied(i) /\ job_list[i].state # JDONE) =>
                  /\ job_list'[i].pid = job_list[i].pid
                  /\ job_list'[i].jid = job_list[i].jid
                  /\ job_list'[i].state = job_list[i].state]_vars

C22_OnlyShellMovesTerminal ==
    (init_flag /\ interactive) =>
        /\ Prompt => tty_pgrp = ShellPid
        /\ tty_pgrp # ShellPid =>
              /\ AtPc("wait")
              /\ tty_pgrp = job_list[Top.job].pid
        /\ \A p \in Pids : tty_pgrp # Grandchild(p)

\* C23: after a job is registered with a command name of any length, in a
\* fresh slot or in a reused one, the slot's cmd buffer holds the first
\* min (length, CMDBUFSZ - 1) bytes of the name followed by a terminating
\* zero inside the buffer.
C23_CmdTerminated ==
    cmd_n > 0 =>
    LET n == Len(cmd_arg) - 1
        m == IF n < CMDBUFSZ - 1 THEN n ELSE CMDBUFSZ - 1
    IN  /\ \A j \in 1 .. m : cmd_buf[j] = cmd_arg[j]
        /\ cmd_buf[m + 1] = 0

\* C24: when the redirection layer has returned, on a failure path as on
\* the normal one, every saved copy of stdin, stdout and stderr it created
\* and the file it opened are closed: no descriptor the layer created is
\* open in the shell unless a call of the layer is in progress.
C24_FailureClosesCopies ==
    (\A k \in 1 .. Len(stack) : stack[k].pc # "redir_exit")
        => \A n \in Fds : fds[n].by # "redir"

\* C25: the background field of a job tells where the job was last placed:
\* while the shell waits for a job that `fg` resumed, the job's background
\* is FG and fg_job is the job; when `bg` has resumed a job, the job's
\* background is BG.
C25_BackgroundFollowsPlacement ==
    [][/\ (AtPc("wait") /\ IsJobctrl(Top)) =>
              /\ job_list[Top.job].background = JFG
              /\ fg_job = Top.job
       /\ (AtPc("to_bg") /\ IsJobctrl(Top) /\ stack' # stack) =>
              job_list'[Top.job].background = JBG]_vars

\* Descriptor d is the end `file` of the pipe the pipeline frame f created.
IsPipeEnd(d, file, f) == d.f = file /\ d.id = f.sv[5]

\* C26: for every PIPE node the consumer (right) is evaluated first, once,
\* in background mode whatever the caller's options, with stdin bound to
\* the read end of the node's pipe, and the shell never waits for it; the
\* producer (left) is evaluated after it, once, with the caller's options,
\* stdout bound to the write end and stdin bound to what it was before;
\* the processes forked for either side are forked with these bindings.
C26_PipelineWiring ==
    [][/\ \A k \in 1 .. Len(stack) :
             /\ stack[k].pc = "pipe" => (stack[k].nr = 0 /\ stack[k].nl = 0)
             /\ stack[k].pc = "pipe_mid" => (stack[k].nr = 1 /\ stack[k].nl = 0)
             /\ stack[k].pc = "pipe_exit" => (stack[k].nr = 1 /\ stack[k].nl = 1)
       /\ (AtPc("pipe") /\ Len(stack') > Len(stack)) =>
             /\ stack'[1] = expression_handler(Top.e.droite, JBG, FALSE)
             /\ IsPipeEnd(fds'[0], "pipe_r", stack'[2])
       /\ (AtPc("pipe_mid") /\ Len(stack') > Len(stack)) =>
             /\ stack'[1] = expression_handler(Top.e.gauche, Top.options, FALSE)
             /\ IsPipeEnd(fds'[1], "pipe_w", Top)
             /\ fds'[0].f = fds[Top.sv[4]].f
       /\ (AtPc("cmd") /\ Len(stack) >= 2 /\ stack'[1].pc = "register") =>
             /\ stack[2].pc = "pipe_mid" =>
                   (Top.options = JBG /\ IsPipeEnd(fds[0], "pipe_r", stack[2]))
             /\ stack[2].pc = "pipe_exit" =>
                   (Top.options = stack[2].options
                    /\ IsPipeEnd(fds[1], "pipe_w", stack[2]))
       /\ (Len(stack) >= 2 /\ stack[2].pc = "pipe_mid") =>
             Top.pc \notin {"to_fg", "wait", "cmd_ret"}]_vars

\* The shell waits for the producer of `a | a`, whose stdout is the write
\* end of the pipe, while the consumer, launched before it in background,
\* runs.
C26_Witness ==
    /\ AtPc("wait")
    /\ Len(stack) = 3
    /\ stack[2].pc = "pipe_exit"
    /\ stack[2].e = Node("PIPE", A, A)
    /\ IsPipeEnd(fds[1], "pipe_w", stack[2])
    /\ \E i \in Slots : /\ job_list[i].background = JBG
                         /\ job_list[i].pid \in Pids
                         /\ job_list[i].pid < Top.pid
                         /\ procs[job_list[i].pid].st = "run"

\* C27: once a slot's state is DONE for a child (set by the reaper, also
\* when the reaper runs from the handler between the registration of the
\* job and the end of its launch), no step sets the state to RUNNING or
\* STOPPED as long as the slot holds that child.
C27_DoneIsFinal ==
    [][\A i \in Slots :
          (/\ Occupied(i)
           /\ job_list[i].state = JDONE
           /\ job_list'[i].pid = job_list[i].pid) => job_list'[i].state = JDONE]_vars

\* The process of the job in slot i has terminated or was never created.
ProcessGone(i) ==
    /\ Occupied(i)
    /\ job_list[i].pid \in Pids => procs[job_list[i].pid].st \in {"none", "zombie"}

\* C28: if top-level evaluations keep completing, every occupied slot whose
\* process has terminated, or was never created, is eventually freed
\* (pid = 0): no slot stays occupied by a dead job forever.
C28_DeadSlotFreed ==
    ([]<>Prompt /\ []<>(~Prompt)) =>
        \A i \in Slots : [](ProcessGone(i) => <>(job_list[i].pid = 0))

====
